---- MODULE Spec2Model ----
(***************************************************************************)
(* Model of nanogcg/gcg.py: the AttackBuffer, sample_ids_from_grad,        *)
(* filter_ids, the candidate scorer and the GCG.run step loop.             *)
(*                                                                         *)
(* Losses are integers.  The language model and the tokenizer are outside  *)
(* collaborators: the model is a loss table indexed by a weight vector,    *)
(* the tokenizer a three-token vocabulary with a greedy longest-match      *)
(* encoder (so that decode followed by encode is not the identity).        *)
(***************************************************************************)
EXTENDS Integers, Sequences, FiniteSets, TLC

VARIABLES config, model, mem_limit, pc, size, buffer, add_log, optim_ids,
          grad, sampled_ids, sampled_ids_pos, sampled_ids_val, batch_size,
          search_batch_size, loss, losses, scores, optim_strings,
          step_best_ids, i, stopping_flag, result, printed

vars == <<config, model, mem_limit, pc, size, buffer, add_log, optim_ids,
          grad, sampled_ids, sampled_ids_pos, sampled_ids_val, batch_size,
          search_batch_size, loss, losses, scores, optim_strings,
          step_best_ids, i, stopping_flag, result, printed>>

----------------------------------------------------------------------------
(* Bounds *)

MaxCapacity == 3
MaxAdds == 3
MaxBufferSize == 2
MaxSteps == 2
MaxSearchWidth == 2
MaxCands == 3
MaxBatch == 4

(* -torch.inf and float("inf"): below / above every value of the model *)
NegInf == -1
Inf == 9

----------------------------------------------------------------------------
(* Tokenizer (outside collaborator) *)

Vocab == {0, 1, 2}
Positions == {1, 2}
TokenSeqs == [Positions -> Vocab]

TokStr(t) == CASE t = 0 -> <<"a">>
               [] t = 1 -> <<"b">>
               [] OTHER -> <<"a", "b">>

RECURSIVE Decode(_)
Decode(ids) == IF ids = <<>> THEN <<>>
               ELSE TokStr(Head(ids)) \o Decode(Tail(ids))

RECURSIVE Encode(_)
Encode(s) ==
    IF s = <<>> THEN <<>>
    ELSE IF Len(s) >= 2 /\ s[1] = "a" /\ s[2] = "b"
         THEN <<2>> \o Encode(SubSeq(s, 3, Len(s)))
    ELSE IF s[1] = "a" THEN <<0>> \o Encode(Tail(s))
    ELSE <<1>> \o Encode(Tail(s))

----------------------------------------------------------------------------
(* Language model (outside collaborator): loss of one candidate *)

LossMod == 4
Models == [Positions -> 1..2]

LossOf(m, ids) == (m[1] * (ids[1] + 1) + m[2] * (ids[2] + 1)) % LossMod

----------------------------------------------------------------------------
(* AttackBuffer *)

RECURSIVE InsertByLoss(_, _)
InsertByLoss(sorted, e) ==
    IF sorted = <<>> THEN <<e>>
    ELSE IF Head(sorted).loss <= e.loss
         THEN <<Head(sorted)>> \o InsertByLoss(Tail(sorted), e)
         ELSE <<e>> \o sorted

RECURSIVE SortByLoss(_)
SortByLoss(buf) ==
    IF buf = <<>> THEN <<>>
    ELSE InsertByLoss(SortByLoss(SubSeq(buf, 1, Len(buf) - 1)), buf[Len(buf)])

AddKeepBetter(buf, sz, l, ids) ==
    LET e == [loss |-> l, optim_ids |-> ids] IN
    IF sz = 0 THEN <<e>>
    ELSE IF Len(buf) < sz THEN Append(buf, e)
    ELSE IF l < buf[Len(buf)].loss
         THEN SortByLoss([buf EXCEPT ![Len(buf)] = e])
         ELSE buf

BufferAdd(buf, sz, l, ids) ==
    LET e == [loss |-> l, optim_ids |-> ids] IN
    IF sz = 0 THEN <<e>>
    ELSE IF Len(buf) < sz THEN Append(buf, e)
    ELSE SortByLoss([buf EXCEPT ![Len(buf)] = e])

GetBestIds(buf) == buf[1].optim_ids

GetLowestLoss(buf) == buf[1].loss

GetHighestLoss(buf) == buf[Len(buf)].loss

----------------------------------------------------------------------------
(* The buffer driven directly through add *)

BufferLosses == 0..2
BufferIds == {<<0, 0>>, <<1, 1>>, <<2, 2>>}

(* optim_str_init given as one string (rows unused: the tokenized string is
   drawn when the buffer is initialized) or as a list, held as the token
   rows its strings tokenize to *)
StrInit == [is_list |-> FALSE, rows |-> <<>>]

IdleConfig == [num_steps |-> 0, search_width |-> 1, batch_size |-> 0,
               topk |-> 1, n_replace |-> 1, buffer_size |-> 0,
               filter_ids |-> FALSE, loss_stopping_criteria |-> NegInf,
               custom_score_func |-> FALSE, not_allowed_ids |-> {},
               optim_str_init |-> StrInit]

(* No run in progress: the locals of GCG.run before its first statement *)
NoRun ==
    /\ sampled_ids = <<>>
    /\ sampled_ids_pos = <<>>
    /\ sampled_ids_val = <<>>
    /\ batch_size = 0
    /\ search_batch_size = 0
    /\ loss = <<>>
    /\ losses = <<>>
    /\ scores = <<>>
    /\ optim_strings = <<>>
    /\ step_best_ids = <<>>
    /\ i = -1
    /\ stopping_flag = FALSE
    /\ result = <<>>
    /\ printed = {}

InitBufferApi ==
    /\ pc = "buffer"
    /\ \E sz \in 0..MaxCapacity :
         /\ size = sz
         /\ config = [IdleConfig EXCEPT !.buffer_size = sz]
    /\ model = [p \in Positions |-> 1]
    /\ mem_limit = 1
    /\ buffer = <<>>
    /\ add_log = <<>>
    /\ optim_ids = <<>>
    /\ grad = <<>>
    /\ NoRun

Add ==
    /\ pc = "buffer"
    /\ Len(add_log) < MaxAdds
    /\ \E l \in BufferLosses, ids \in BufferIds :
         /\ buffer' = BufferAdd(buffer, size, l, ids)
         /\ add_log' = Append(add_log, [loss |-> l, optim_ids |-> ids])
    /\ UNCHANGED <<config, model, mem_limit, pc, size, optim_ids, grad,
                   sampled_ids, sampled_ids_pos, sampled_ids_val,
                   batch_size, search_batch_size, loss, losses, scores,
                   optim_strings, step_best_ids, i, stopping_flag, result,
                   printed>>

NextBufferApi == Add

SpecBuffer == InitBufferApi /\ [][NextBufferApi]_vars

----------------------------------------------------------------------------
(* compute_token_gradient and sample_ids_from_grad *)

GradValues == {0, 1}
GradMatrices == [Positions -> [Vocab -> GradValues]]

(* The gradient the model returns for a sequence: the change of the loss
   when position p is set to token v *)
ComputeTokenGradient(m, ids) ==
    [p \in Positions |->
        [v \in Vocab |-> LossOf(m, [ids EXCEPT ![p] = v]) - LossOf(m, ids)]]

(* grad[:, not_allowed_ids] = float("inf") *)
MaskGrad(g, not_allowed) ==
    [p \in Positions |->
        [v \in Vocab |-> IF v \in not_allowed THEN Inf ELSE g[p][v]]]

(* (-row).topk(k).indices, as the set of the k ids returned: no id left out
   has a smaller gradient than an id taken; which of several equal values is
   taken is left to the library.  The index drawn into it is uniform over all
   k places, so only the set of ids matters. *)
TopkIndices(row, k) ==
    {S \in SUBSET Vocab :
        /\ Cardinality(S) = k
        /\ \A v \in S, u \in Vocab \ S : row[v] <= row[u]}

(* the first n_replace entries of a random permutation of the positions *)
PosChoices(n_replace) ==
    {s \in [1..n_replace -> Positions] :
        \A a, b \in 1..n_replace : a # b => s[a] # s[b]}

(* original_ids.scatter_(1, sampled_ids_pos, sampled_ids_val), one row *)
Scatter(ids, pos, val) ==
    [p \in Positions |->
        IF \E j \in DOMAIN pos : pos[j] = p
        THEN val[CHOOSE j \in DOMAIN pos : pos[j] = p]
        ELSE ids[p]]

(* every (sampled_ids_pos, sampled_ids_val, new_ids) the call can return *)
SampleIdsFromGrad(ids, g, search_width, topk, n_replace, not_allowed) ==
    LET masked == MaskGrad(g, not_allowed)
        rowtops == [p \in Positions |-> TopkIndices(masked[p], topk)]
        tops == {t \in [Positions -> UNION {rowtops[p] : p \in Positions}] :
                    \A p \in Positions : t[p] \in rowtops[p]}
        RowDraws(t) == {d \in PosChoices(n_replace) \X [1..n_replace -> Vocab] :
                           \A j \in 1..n_replace : d[2][j] \in t[d[1][j]]}
    IN  UNION {
          {[pos |-> [k \in 1..search_width |-> d[k][1]],
            val |-> [k \in 1..search_width |-> d[k][2]],
            new_ids |-> [k \in 1..search_width |->
                           Scatter(ids, d[k][1], d[k][2])]]
           : d \in [1..search_width -> RowDraws(t)]}
          : t \in tops}

GradStep ==
    /\ pc = "grad"
    /\ grad' = ComputeTokenGradient(model, optim_ids)
    /\ pc' = "sample"
    /\ UNCHANGED <<config, model, mem_limit, size, buffer, add_log, optim_ids,
                   sampled_ids, sampled_ids_pos, sampled_ids_val,
                   batch_size, search_batch_size, loss, losses, scores,
                   optim_strings, step_best_ids, i, stopping_flag, result,
                   printed>>

SampleIds ==
    /\ pc = "sample"
    /\ \E o \in SampleIdsFromGrad(optim_ids, grad, config.search_width,
                     config.topk, config.n_replace, config.not_allowed_ids) :
         /\ sampled_ids_pos' = o.pos
         /\ sampled_ids_val' = o.val
         /\ sampled_ids' = o.new_ids
    /\ grad' = MaskGrad(grad, config.not_allowed_ids)
    /\ pc' = "filter"
    /\ UNCHANGED <<config, model, mem_limit, size, buffer, add_log, optim_ids,
                   batch_size, search_batch_size, loss, losses, scores,
                   optim_strings, step_best_ids, i, stopping_flag, result,
                   printed>>

(* The sampler on its own: any gradient, top-k, replace count, disallowed set *)
SamplerIds == {<<0, 0>>, <<1, 2>>}
SamplerNotAllowed == {{}, {2}, {0, 1}, Vocab}

InitSampler ==
    /\ pc = "sample"
    /\ \E w \in 1..MaxSearchWidth, k \in 1..Cardinality(Vocab),
          r \in 1..Cardinality(Positions), na \in SamplerNotAllowed :
         config = [IdleConfig EXCEPT !.search_width = w, !.topk = k,
                                     !.n_replace = r, !.not_allowed_ids = na]
    /\ model = [p \in Positions |-> 1]
    /\ mem_limit = 1
    /\ size = 0
    /\ buffer = <<>>
    /\ add_log = <<>>
    /\ optim_ids \in SamplerIds
    /\ grad \in GradMatrices
    /\ NoRun

NextSampler == SampleIds

SpecSampler == InitSampler /\ [][NextSampler]_vars

----------------------------------------------------------------------------
(* filter_ids *)

RECURSIVE FilterLoopKeepAll(_, _, _)
FilterLoopKeepAll(ids, k, filtered_ids) ==
    IF k > Len(ids) THEN filtered_ids
    ELSE FilterLoopKeepAll(ids, k + 1, Append(filtered_ids, ids[k]))

RECURSIVE FilterLoop(_, _, _)
FilterLoop(ids, k, filtered_ids) ==
    IF k > Len(ids) THEN filtered_ids
    ELSE LET ids_decoded == Decode(ids[k])
             ids_encoded == Encode(ids_decoded)
         IN  FilterLoop(ids, k + 1,
                 IF ids[k] = ids_encoded THEN Append(filtered_ids, ids[k])
                 ELSE filtered_ids)

(* raised is TRUE for the RuntimeError of an empty result *)
FilterIds(ids) ==
    LET filtered_ids == FilterLoop(ids, 1, <<>>)
    IN  [raised |-> filtered_ids = <<>>, ids |-> filtered_ids]

----------------------------------------------------------------------------
(* Candidate scorer *)

Min2(a, b) == IF a < b THEN a ELSE b

(* One pass of the loop of compute_candidates_loss, from candidate k on.
   st.cache is the batch width of prefix_cache_batch (0: not built yet);
   the forward pass of a sub-batch of more than limit rows runs out of
   memory, one whose cache width differs from the sub-batch fails. *)
RECURSIVE ComputeLoopDropTail(_, _, _, _, _, _)
ComputeLoopDropTail(w, embeds, m, limit, k, st) ==
    IF k + w - 1 > Len(embeds) THEN st
    ELSE LET batch == SubSeq(embeds, k, Min2(k + w - 1, Len(embeds)))
             cbs == Len(batch)
             cache == IF st.cache = 0 \/ cbs # w THEN cbs ELSE st.cache
         IN  IF cbs > limit THEN [st EXCEPT !.status = "oom"]
             ELSE IF cache # cbs THEN [st EXCEPT !.status = "shape"]
             ELSE ComputeLoopDropTail(w, embeds, m, limit, k + w,
                    [status |-> "ok", cache |-> cache,
                     all_loss |-> st.all_loss \o
                                  [j \in 1..cbs |-> LossOf(m, batch[j])]])

RECURSIVE ComputeLoop(_, _, _, _, _, _)
ComputeLoop(w, embeds, m, limit, k, st) ==
    IF k > Len(embeds) THEN st
    ELSE LET batch == SubSeq(embeds, k, Min2(k + w - 1, Len(embeds)))
             cbs == Len(batch)
             cache == IF st.cache = 0 \/ cbs # w THEN cbs ELSE st.cache
         IN  IF cbs > limit THEN [st EXCEPT !.status = "oom"]
             ELSE IF cache # cbs THEN [st EXCEPT !.status = "shape"]
             ELSE ComputeLoop(w, embeds, m, limit, k + w,
                    [status |-> "ok", cache |-> cache,
                     all_loss |-> st.all_loss \o
                                  [j \in 1..cbs |-> LossOf(m, batch[j])]])

ComputeCandidatesLoss(w, embeds, m, limit) ==
    ComputeLoop(w, embeds, m, limit, 1,
                [status |-> "ok", cache |-> 0, all_loss |-> <<>>])

(* find_executable_batch_size: retry at half the width after running out of
   memory, down to width 1; below that the failure is fatal *)
RECURSIVE FindExecutableBatchSize(_, _, _, _)
FindExecutableBatchSize(w, embeds, m, limit) ==
    IF w = 0 THEN [status |-> "fatal", width |-> 0, all_loss |-> <<>>]
    ELSE LET r == ComputeCandidatesLoss(w, embeds, m, limit)
         IN  IF r.status = "oom"
             THEN FindExecutableBatchSize(w \div 2, embeds, m, limit)
             ELSE [status |-> r.status, width |-> w, all_loss |-> r.all_loss]

Score ==
    /\ pc = "score"
    /\ LET r == FindExecutableBatchSize(batch_size, sampled_ids, model, mem_limit)
       IN  IF r.status = "ok"
           THEN /\ loss' = r.all_loss
                /\ search_batch_size' = r.width
                /\ pc' = "update"
           ELSE /\ pc' = "failed"
                /\ UNCHANGED <<loss, search_batch_size>>
    /\ UNCHANGED <<config, model, mem_limit, size, buffer, add_log, optim_ids,
                   grad, sampled_ids, sampled_ids_pos, sampled_ids_val,
                   batch_size, losses, scores, optim_strings,
                   step_best_ids, i, stopping_flag, result,
                   printed>>

(* The scorer on its own: any candidates, starting width and memory limit *)
ScorerIds == {<<0, 0>>, <<1, 0>>, <<2, 1>>}

InitScorer ==
    /\ pc = "score"
    /\ config = IdleConfig
    /\ model \in Models
    /\ mem_limit \in 0..MaxCands
    /\ size = 0
    /\ buffer = <<>>
    /\ add_log = <<>>
    /\ optim_ids = <<>>
    /\ grad = <<>>
    /\ \E n \in 1..MaxCands : sampled_ids \in [1..n -> ScorerIds]
    /\ sampled_ids_pos = <<>>
    /\ sampled_ids_val = <<>>
    /\ batch_size \in 1..MaxBatch
    /\ search_batch_size = 0
    /\ loss = <<>>
    /\ losses = <<>>
    /\ scores = <<>>
    /\ optim_strings = <<>>
    /\ step_best_ids = <<>>
    /\ i = -1
    /\ stopping_flag = FALSE
    /\ result = <<>>
    /\ printed = {}

NextScorer == Score

SpecScorer == InitScorer /\ [][NextScorer]_vars

----------------------------------------------------------------------------
(* GCG.run *)

Configs ==
    [num_steps : 0..MaxSteps,
     search_width : 1..MaxSearchWidth,
     batch_size : {0},
     topk : {2},
     n_replace : {1},
     buffer_size : 0..MaxBufferSize,
     filter_ids : BOOLEAN,
     loss_stopping_criteria : {NegInf, 2},
     custom_score_func : BOOLEAN,
     not_allowed_ids : {{2}},
     optim_str_init : {StrInit}]

MemLimits == {0, 1, 2}

(* optim_str_init tokenized, and the rows drawn from INIT_CHARS *)
InitIds == {<<0, 0>>, <<1, 0>>, <<2, 1>>}

(* config.custom_score_func, or the identity *)
CustomScoreFunc(custom, x) == IF custom THEN 10 - x ELSE x

Max2(a, b) == IF a > b THEN a ELSE b

(* losses[k] for the first k of smallest loss: loss.argmin(), list.index *)
ArgMin(ls) ==
    CHOOSE k \in 1..Len(ls) :
        /\ \A j \in 1..Len(ls) : ls[k] <= ls[j]
        /\ \A j \in 1..(k - 1) : ls[j] > ls[k]

(* for i in range(true_buffer_size): buffer.add(losses[i], ids[[i]]) *)
RECURSIVE Populate(_, _, _, _, _, _)
Populate(buf, sz, ls, ids, k, true_buffer_size) ==
    IF k > true_buffer_size THEN buf
    ELSE Populate(BufferAdd(buf, sz, ls[k], ids[k]), sz, ls, ids, k + 1,
                  true_buffer_size)

(* len(config.optim_str_init) != config.buffer_size: the WARNING is printed *)
CountWarns(n, buffer_size) == n # buffer_size

(* the tokenizer cannot stack rows of differing lengths into one tensor:
   ValueError, caught; init_buffer_ids is then never bound *)
Ragged(rows) ==
    \E a, b \in 1..Len(rows) : Len(rows[a]) # Len(rows[b])

(* torch.cat along dim 1 of n embedded rows with the suffix and target
   repeated true_buffer_size times raises unless the row counts agree *)
CatRaisesOnlyIfFewer(n, true_buffer_size) == n < true_buffer_size

CatRaises(n, true_buffer_size) == n # true_buffer_size

MaxInitStrings == 3
ShortRow == <<1>>

(* lists of initial strings; a row shorter than the others is a string that
   tokenizes to a different length *)
InitLists ==
    {l \in UNION {[1..n -> InitIds \cup {ShortRow}] : n \in 1..MaxInitStrings} :
        \E k \in 1..Len(l) : l[k] \in InitIds}

InitRun ==
    /\ pc = "init_buffer"
    /\ config \in Configs
    /\ model \in Models
    /\ mem_limit \in MemLimits
    /\ size = 0
    /\ buffer = <<>>
    /\ add_log = <<>>
    /\ optim_ids = <<>>
    /\ grad = <<>>
    /\ NoRun

(* runs whose optim_str_init is a list *)
InitRunList ==
    /\ pc = "init_buffer"
    /\ \E c \in Configs, l \in InitLists :
         /\ c.search_width = 1
         /\ ~c.custom_score_func
         /\ config = [c EXCEPT !.optim_str_init = [is_list |-> TRUE, rows |-> l]]
    /\ model \in Models
    /\ mem_limit \in MemLimits
    /\ size = 0
    /\ buffer = <<>>
    /\ add_log = <<>>
    /\ optim_ids = <<>>
    /\ grad = <<>>
    /\ NoRun

InitBuffer ==
    /\ pc = "init_buffer"
    /\ LET init == config.optim_str_init
           true_buffer_size == Max2(1, config.buffer_size)
           warned == IF init.is_list
                        /\ CountWarns(Len(init.rows), config.buffer_size)
                     THEN {"count"} ELSE {}
       IN  IF init.is_list /\ Ragged(init.rows)
           THEN /\ printed' = printed \cup warned \cup {"length"}
                /\ pc' = "failed"
                /\ UNCHANGED <<size, buffer, add_log, optim_ids, i>>
           ELSE
             \E init_buffer_ids \in
                  IF init.is_list THEN {init.rows}
                  ELSE [1..true_buffer_size -> InitIds] :
               LET r == FindExecutableBatchSize(true_buffer_size,
                            init_buffer_ids, model, mem_limit)
                   filled == Populate(<<>>, config.buffer_size, r.all_loss,
                                      init_buffer_ids, 1, true_buffer_size)
               IN  /\ printed' = printed \cup warned
                   /\ IF ~CatRaises(Len(init_buffer_ids), true_buffer_size)
                         /\ r.status = "ok"
                      THEN /\ size' = config.buffer_size
                           /\ buffer' = filled
                           /\ add_log' = [k \in 1..true_buffer_size |->
                                            [loss |-> r.all_loss[k],
                                             optim_ids |-> init_buffer_ids[k]]]
                           /\ optim_ids' = GetBestIds(filled)
                           /\ IF config.num_steps > 0
                              THEN pc' = "grad" /\ i' = 0
                              ELSE pc' = "finish" /\ i' = i
                      ELSE /\ pc' = "failed"
                           /\ UNCHANGED <<size, buffer, add_log, optim_ids, i>>
    /\ UNCHANGED <<config, model, mem_limit, grad, sampled_ids,
                   sampled_ids_pos, sampled_ids_val, batch_size,
                   search_batch_size, loss, losses, scores, optim_strings,
                   step_best_ids, stopping_flag, result>>

Filter ==
    /\ pc = "filter"
    /\ LET f == FilterIds(sampled_ids)
           kept == IF config.filter_ids THEN f.ids ELSE sampled_ids
           new_search_width == Len(kept)
       IN  IF config.filter_ids /\ f.raised
           THEN /\ pc' = "failed"
                /\ UNCHANGED <<sampled_ids, batch_size>>
           ELSE /\ sampled_ids' = kept
                /\ batch_size' = IF config.batch_size = 0
                                 THEN new_search_width
                                 ELSE config.batch_size
                /\ pc' = "score"
    /\ UNCHANGED <<config, model, mem_limit, size, buffer, add_log, optim_ids,
                   grad, sampled_ids_pos, sampled_ids_val, search_batch_size,
                   loss, losses, scores, optim_strings, step_best_ids, i,
                   stopping_flag, result,
                   printed>>

StoppingFlagOrEqual(current_loss, stopping_point) ==
    current_loss <= stopping_point

StoppingFlag(current_loss, stopping_point) == current_loss < stopping_point

AdmitsAlways(buf, sz, current_loss) == TRUE

Admits(buf, sz, current_loss) ==
    sz = 0 \/ current_loss < GetHighestLoss(buf)

Update ==
    /\ pc = "update"
    /\ LET current_loss == loss[ArgMin(loss)]
           current_score == CustomScoreFunc(config.custom_score_func,
                                            current_loss)
           best_ids == sampled_ids[ArgMin(loss)]
           admitted == Admits(buffer, size, current_loss)
           buf == IF admitted
                  THEN BufferAdd(buffer, size, current_loss, best_ids)
                  ELSE buffer
           flag == StoppingFlag(current_loss, config.loss_stopping_criteria)
       IN  /\ losses' = Append(losses, current_loss)
           /\ scores' = Append(scores, current_score)
           /\ step_best_ids' = Append(step_best_ids, best_ids)
           /\ buffer' = buf
           /\ add_log' = IF admitted
                         THEN Append(add_log, [loss |-> current_loss,
                                               optim_ids |-> best_ids])
                         ELSE add_log
           /\ stopping_flag' = flag
           /\ optim_ids' = GetBestIds(buf)
           /\ optim_strings' = Append(optim_strings, Decode(GetBestIds(buf)))
           /\ IF ~flag /\ i + 1 < config.num_steps
              THEN pc' = "grad" /\ i' = i + 1
              ELSE pc' = "finish" /\ i' = i
    (* the step's temporaries are dead once the step is over *)
    /\ grad' = <<>>
    /\ sampled_ids' = <<>>
    /\ sampled_ids_pos' = <<>>
    /\ sampled_ids_val' = <<>>
    /\ batch_size' = 0
    /\ search_batch_size' = 0
    /\ loss' = <<>>
    /\ UNCHANGED <<config, model, mem_limit, size, result, printed>>

(* after the loop; min() of an empty list raises *)
Finish ==
    /\ pc = "finish"
    /\ IF losses = <<>>
       THEN pc' = "failed" /\ UNCHANGED result
       ELSE LET min_loss_index == ArgMin(losses)
            IN  /\ result' = [best_loss |-> losses[min_loss_index],
                              best_score |-> scores[min_loss_index],
                              best_string |-> optim_strings[min_loss_index],
                              losses |-> losses,
                              scores |-> scores,
                              strings |-> optim_strings,
                              number_of_steps |-> i + 1]
                /\ pc' = "done"
    /\ UNCHANGED <<config, model, mem_limit, size, buffer, add_log, optim_ids,
                   grad, sampled_ids, sampled_ids_pos, sampled_ids_val,
                   batch_size, search_batch_size, loss, losses, scores,
                   optim_strings, step_best_ids, i, stopping_flag, printed>>

Next ==
    \/ InitBuffer
    \/ GradStep
    \/ SampleIds
    \/ Filter
    \/ Score
    \/ Update
    \/ Finish

Spec == InitRun /\ [][Next]_vars

SpecInit == InitRunList /\ [][Next]_vars

----------------------------------------------------------------------------
(* Properties of the buffer *)

IsSortedByLoss(buf) ==
    \A a, b \in 1..Len(buf) : a < b => buf[a].loss <= buf[b].loss

MinResidentLoss(buf) ==
    CHOOSE l \in {buf[k].loss : k \in 1..Len(buf)} :
        \A k \in 1..Len(buf) : l <= buf[k].loss

MaxResidentLoss(buf) ==
    CHOOSE l \in {buf[k].loss : k \in 1..Len(buf)} :
        \A k \in 1..Len(buf) : l >= buf[k].loss

(* C1: with capacity >= 1, a buffer that has reached capacity is sorted
   ascending by loss after each add call, and never longer than capacity. *)
C1_SortedOnceFull ==
    (pc = "buffer" /\ size >= 1)
        => /\ Len(buffer) <= size
           /\ (Len(buffer) = size => IsSortedByLoss(buffer))

(* C3: with capacity 0 or 1, after any non-empty sequence of add calls the
   buffer holds exactly one entry, the most recently added pair. *)
C3_AlwaysReplace ==
    (pc = "buffer" /\ size <= 1 /\ add_log # <<>>)
        => buffer = <<add_log[Len(add_log)]>>

C3_Witness ==
    /\ pc = "buffer"
    /\ size = 1
    /\ Len(add_log) >= 2
    /\ add_log[Len(add_log)].loss > add_log[Len(add_log) - 1].loss
    /\ buffer = <<add_log[Len(add_log)]>>

----------------------------------------------------------------------------
(* Properties of the sampler *)

(* C9: no token id of the disallowed set is ever written as a substituted
   value into a candidate produced by sample_ids_from_grad. *)
C9_NoDisallowedSubstituted ==
    pc = "filter" =>
        \A k \in DOMAIN sampled_ids_val : \A j \in DOMAIN sampled_ids_val[k] :
            sampled_ids_val[k][j] \notin config.not_allowed_ids

----------------------------------------------------------------------------
(* Properties of the scorer *)

(* C8: at every sub-batch width the scorer returns exactly one loss per
   candidate, in candidate order, each equal to the loss obtained when all
   candidates are scored at width 1. *)
C8_WidthEquivalence ==
    pc = "update" =>
        /\ Len(loss) = Len(sampled_ids)
        /\ \A k \in 1..Len(sampled_ids) :
              loss[k] = ComputeCandidatesLoss(1, sampled_ids, model,
                                              mem_limit).all_loss[k]

C8_Witness ==
    /\ pc = "update"
    /\ search_batch_size < batch_size
    /\ search_batch_size > 1
    /\ Len(sampled_ids) % search_batch_size # 0
    /\ \E a, b \in 1..Len(loss) : loss[a] # loss[b]

----------------------------------------------------------------------------
(* Properties of the run *)

InLoop == pc \in {"grad", "sample", "filter", "score", "update"}

BelowThreshold(l) == l < config.loss_stopping_criteria

(* C2: whenever the buffer is non-empty and capacity >= 1, get_best_ids
   returns a sequence of smallest resident loss, and the optimization point
   taken at the start of a step is such a sequence. *)
C2_BestIsMinimum ==
    (size >= 1 /\ buffer # <<>>) =>
        /\ \E k \in 1..Len(buffer) :
              /\ buffer[k].optim_ids = GetBestIds(buffer)
              /\ buffer[k].loss = MinResidentLoss(buffer)
        /\ pc = "grad" =>
              \E k \in 1..Len(buffer) :
                 /\ buffer[k].optim_ids = optim_ids
                 /\ buffer[k].loss = MinResidentLoss(buffer)

(* C4: with capacity >= 1 and the buffer at capacity, get_highest_loss is
   the largest resident loss, and it never rises from one state of the run
   to the next. *)
C4_WorstLossNonIncreasing ==
    /\ [](size >= 1 /\ Len(buffer) = size
            => GetHighestLoss(buffer) = MaxResidentLoss(buffer))
    /\ [][(size >= 1 /\ Len(buffer) = size /\ Len(buffer') = size)
            => GetHighestLoss(buffer') <= GetHighestLoss(buffer)]_vars

(* C5: with capacity >= 1, a step adds its best candidate to the buffer
   exactly when the candidate's loss is strictly below the largest resident
   loss or the buffer is not full; otherwise the step leaves the buffer
   unchanged. *)
C5_AdmissionRule ==
    [][(pc = "update" /\ size >= 1) =>
         LET current_loss == loss[ArgMin(loss)]
             candidate == [loss |-> current_loss,
                           optim_ids |-> sampled_ids[ArgMin(loss)]]
             due == \/ current_loss < MaxResidentLoss(buffer)
                    \/ Len(buffer) < size
         IN  /\ due <=> (add_log' = Append(add_log, candidate))
             /\ due => \E k \in 1..Len(buffer') : buffer'[k] = candidate
             /\ ~due => buffer' = buffer]_vars

(* C6: the loop ends right after the first step whose best loss is strictly
   below the threshold, otherwise after exactly num_steps steps (always so
   with the default threshold); number_of_steps is the number of steps
   executed and the length of each history list, and is at most num_steps. *)
C6_StopRule ==
    /\ Len(losses) = Len(scores)
    /\ Len(losses) = Len(optim_strings)
    /\ Len(losses) <= config.num_steps
    /\ \A k \in 1..(Len(losses) - 1) : ~BelowThreshold(losses[k])
    /\ InLoop =>
          /\ i = Len(losses)
          /\ Len(losses) < config.num_steps
          /\ \A k \in 1..Len(losses) : ~BelowThreshold(losses[k])
    /\ pc \in {"finish", "done"} =>
          \/ Len(losses) = config.num_steps
          \/ Len(losses) >= 1 /\ BelowThreshold(losses[Len(losses)])
    /\ (pc \in {"finish", "done"} /\ config.loss_stopping_criteria = NegInf)
          => Len(losses) = config.num_steps
    /\ pc = "done" =>
          /\ result.number_of_steps = Len(losses)
          /\ result.number_of_steps = Len(result.losses)
          /\ result.number_of_steps = Len(result.scores)
          /\ result.number_of_steps = Len(result.strings)
          /\ result.number_of_steps <= config.num_steps

(* stopped early on a candidate the buffer did not admit *)
C6_Witness ==
    /\ pc = "done"
    /\ size >= 1
    /\ result.number_of_steps < config.num_steps
    /\ BelowThreshold(losses[Len(losses)])
    /\ Len(add_log) = size

(* C7: at DONE best_loss is the minimum of the loss history, and best_score
   and best_string are the score and the decoded string of the candidate
   that achieved that loss in its step. *)
C7_ResultIsBestCandidate ==
    pc = "done" =>
        /\ \A k \in 1..Len(losses) : result.best_loss <= losses[k]
        /\ \E k \in 1..Len(losses) :
              /\ losses[k] = result.best_loss
              /\ result.best_score = CustomScoreFunc(config.custom_score_func,
                                                     losses[k])
              /\ result.best_string = Decode(step_best_ids[k])

RoundTrips(ids) == Encode(Decode(ids)) = ids

(* C10: filter_ids keeps exactly the candidates that decode and re-tokenize
   to themselves, in their order; when none is left the run aborts in that
   step, with nothing scored, recorded or added to the buffer, and nothing
   is retried afterwards. *)
C10_FilterRule ==
    [][/\ (pc = "filter" /\ config.filter_ids) =>
            LET kept == SelectSeq(sampled_ids, RoundTrips)
            IN  IF kept = <<>>
                THEN /\ pc' = "failed"
                     /\ UNCHANGED <<loss, losses, scores, optim_strings,
                                    buffer, add_log, result>>
                ELSE /\ sampled_ids' = kept
                     /\ pc' = "score"
       /\ pc = "failed" => UNCHANGED vars]_vars

(* the abort, in a step after the first *)
C10_Witness ==
    /\ pc = "failed"
    /\ config.filter_ids
    /\ sampled_ids # <<>>
    /\ \A k \in 1..Len(sampled_ids) : ~RoundTrips(sampled_ids[k])
    /\ i >= 1
    /\ Len(losses) = i

----------------------------------------------------------------------------
(* Properties of buffer initialization *)

NotStarted ==
    /\ pc \in {"init_buffer", "failed"}
    /\ buffer = <<>>
    /\ losses = <<>>
    /\ i = -1

(* C11: when the number of initial strings differs from the configured
   buffer capacity, or the strings tokenize to differing lengths, the
   mismatch is reported and no optimization step is executed. *)
C11_MismatchStopsRun ==
    LET rows == config.optim_str_init.rows IN
    (config.optim_str_init.is_list
        /\ (Len(rows) # config.buffer_size \/ Ragged(rows)))
      => /\ ~InLoop
         /\ losses = <<>>
         /\ pc = "failed" => printed # {}

(* C11 as amended: the run stops when the strings tokenize to differing
   lengths or their number differs from the effective capacity
   max(1, buffer_size); a number that differs from the configured capacity
   is always reported by the warning, and with buffer_size 0 and a single
   string the warning is all that happens. *)
C11_EffectiveMismatchStopsRun ==
    LET rows == config.optim_str_init.rows IN
    config.optim_str_init.is_list =>
      /\ (Len(rows) # Max2(1, config.buffer_size) \/ Ragged(rows))
            => /\ NotStarted
               /\ pc = "failed" => printed # {}
      /\ (Len(rows) # config.buffer_size /\ pc # "init_buffer")
            => "count" \in printed
      /\ (Ragged(rows) /\ pc # "init_buffer") => "length" \in printed

C11_Witness ==
    /\ config.optim_str_init.is_list
    /\ ~Ragged(config.optim_str_init.rows)
    /\ Len(config.optim_str_init.rows) > Max2(1, config.buffer_size)
    /\ mem_limit >= 1
    /\ pc = "failed"
    /\ "count" \in printed
    /\ NotStarted

----------------------------------------------------------------------------
(* Smallest resident loss *)

(* C12: with capacity >= 1 the smallest loss among the resident entries
   never increases from one state of the run to the next, and an admission
   removes no entry whose loss is at or below the admitted loss. *)
C12_MinLossNonIncreasing ==
    [][(size >= 1 /\ buffer # <<>>) =>
         /\ buffer' # <<>>
         /\ MinResidentLoss(buffer') <= MinResidentLoss(buffer)
         /\ add_log' # add_log =>
              \A k \in 1..Len(buffer) :
                 buffer[k].loss <= add_log'[Len(add_log')].loss
                    => \E j \in 1..Len(buffer') : buffer'[j] = buffer[k]]_vars

(* an admission has replaced an entry and lowered the smallest loss *)
C12_Witness ==
    /\ size >= 1
    /\ Len(add_log) > size
    /\ \A k \in 1..size : add_log[k].loss > add_log[Len(add_log)].loss
    /\ MinResidentLoss(buffer) = add_log[Len(add_log)].loss

(* the other half of C12: with capacity 0 the single resident loss can be
   larger after a step than before it *)
CapacityZeroLossIncreased ==
    /\ size = 0
    /\ Len(add_log) >= 2
    /\ buffer = <<add_log[Len(add_log)]>>
    /\ add_log[Len(add_log)].loss > add_log[Len(add_log) - 1].loss

====
